---- MODULE Spec2Model ----
(***************************************************************************)
(* Model of src/curl_connect.cpp: the libcurl wrapper (CurlConnectionImpl_),*)
(* HTTPConnection, and the reference-counted SharedHTTPConnection registry  *)
(* (contexts / contexts_mtx) with its per-context mutexes.                  *)
(***************************************************************************)
EXTENDS Integers, Sequences, FiniteSets, TLC

VARIABLES contexts, contexts_mtx, certificate_bundle_path, fe, pc, arg, exc,
          wire, aborted, plain, util

vars == <<contexts, contexts_mtx, certificate_bundle_path, fe, pc, arg, exc,
          wire, aborted, plain, util>>

(* ------------------------------ bounds --------------------------------- *)

NumThreads == 2
MaxFE == 2
MaxId == 2
MaxHeaders == 1
\* nverify counts up to MaxVerify
MaxVerify == 2
\* the field lists have at most MaxPairs pairs, the strings parsed at most
\* MaxStr characters
MaxPairs == 2
MaxStr == 6

Threads == 1..NumThreads
FEs == 1..MaxFE
Ids == 1..MaxId

(* ------------------------------ inputs --------------------------------- *)

UrlInputs == {"", "http://a", "ftp://a"}
MethInputs == {"http_get"}
\* the options the engine refuses in one call sequence (curl_easy_setopt != CURLE_OK)
BadInputs == {{}, {"CURLOPT_URL"}, {"CURLOPT_HTTPGET"}}

\* SpecExec: one url and one method, with and without a header
ExecUrlInputs == {"http://a"}
ExecMethInputs == {"http_get"}
ExecBadInputs == {{}, {"CURLOPT_URL"}, {"CURLOPT_HTTPHEADER"}, {"CURLOPT_HTTPGET"},
                  {"CURLOPT_TIMEOUT_MS"}}
HeaderInputs == {<<<<"k", "v">>>>}
\* SpecBody: one front-end, its method, fields and timeout
BodyMethInputs == {"http_get", "http_post"}
BodyBadInputs == {{}, {"CURLOPT_COPYPOSTFIELDS"}}
FieldInputs == {<<>>, <<<<"a", "1">>>>}
TimeoutInputs == {0, 500}

\* SpecPlain: a plain HTTPConnection and one shared front-end, their urls
PlainUrlInputs == {"http://a", "https://a", "ftp://a"}
PlainMethInputs == {"http_get"}
\* SpecClosed: the options libcurl may reject
ClosedBadInputs == {{}, {"CURLOPT_TIMEOUT_MS"}, {"CURLOPT_WRITEDATA"}}
PlainBadInputs == {{}, {"CURLOPT_URL"}, {"CURLOPT_SSL_VERIFYHOST"}}

\* SpecFields: the characters of keys, values and field strings; NUL stands for
\* the character '\0', which a TLA+ string cannot hold
NUL == "~"
FieldTokens == {"", "a", "=", "&", NUL}
FieldChars == {"a", "=", "&"}

(* ------------------------------ helpers -------------------------------- *)

\* std::string::rfind(p, 0) == 0
StartsWith(s, p) == Len(s) >= Len(p) /\ SubSeq(s, 1, Len(p)) = p

Put(m, k, v) == [o \in (DOMAIN m) \cup {k} |-> IF o = k THEN v ELSE m[o]]

Erase(m, k) == [o \in (DOMAIN m) \ {k} |-> m[o]]

EmptyMap == [o \in {} |-> 0]

Ok(c) == [c |-> c, err |-> "none"]

Throw(c, e) == [c |-> c, err |-> e]

\* sequencing of calls that may throw: the first exception ends the sequence
Then(r, F(_)) == IF r.err # "none" THEN r ELSE F(r.c)

(* ---------------------- CurlConnectionImpl_ ---------------------------- *)
\* A connection is a record
\*   _handle  : open = FALSE is nullptr; ptr is where the easy handle's
\*              CURLOPT_HTTPHEADER pointer points, the one part of the handle
\*              that _options does not mirror ("null", "live" = the list
\*              _header, "dangling" = a freed list whose former content is
\*              .stale)
\*   _header  : the curl_slist, as a sequence of "name: value" strings
\*   _options : option |-> value, as recorded by set_option
\*   _proto, _meth : HTTPConnection members
\*   nverify  : number of SET_ssl_verify calls made on this instance (a history
\*              counter, not a member)

set_option(c, option, param, bad) ==
    IF ~c._handle.open THEN Throw(c, "handle_closed")
    ELSE IF option \in bad THEN Throw(c, "option_rejected")
    ELSE Ok([c EXCEPT !._options = Put(@, option, param),
                      !._handle = IF option = "CURLOPT_HTTPHEADER"
                                  THEN [open |-> TRUE, ptr |-> "live", stale |-> <<>>]
                                  ELSE @])

CurlConnectionImpl_(bad) ==
    LET c0 == [_handle |-> [open |-> TRUE, ptr |-> "null", stale |-> <<>>],
               _header |-> <<>>,
               _options |-> EmptyMap,
               _proto |-> "none",
               _meth |-> "none",
               nverify |-> 0]
    IN Then(set_option(c0, "CURLOPT_NOSIGNAL", 1, bad),
            LAMBDA c : set_option(c, "CURLOPT_ERRORBUFFER", "buf", bad))

\* close(): frees the header list and the easy handle, forgets the options
close(c) ==
    [c EXCEPT !._header = <<>>,
              !._handle = [open |-> FALSE, ptr |-> "null", stale |-> <<>>],
              !._options = EmptyMap]

SET_url(c, url, bad) ==
    Then(set_option(c, "CURLOPT_URL", url, bad),
         LAMBDA d : set_option(d, "CURLOPT_SSL_OPTIONS", "NO_REVOKE", bad))

GET_url(c) ==
    IF "CURLOPT_URL" \in DOMAIN c._options THEN c._options["CURLOPT_URL"] ELSE ""

SET_ssl_verify(c, on, bad) ==
    Then(set_option([c EXCEPT !.nverify = IF @ < MaxVerify THEN @ + 1 ELSE @],
                    "CURLOPT_SSL_VERIFYPEER", IF on THEN 1 ELSE 0, bad),
         LAMBDA d : set_option(d, "CURLOPT_SSL_VERIFYHOST", IF on THEN 2 ELSE 0, bad))

SET_ssl_verify_using_ca_bundle(c, path, bad) ==
    Then(SET_ssl_verify(c, TRUE, bad),
         LAMBDA d : set_option(d, "CURLOPT_CAINFO", path, bad))

SET_encoding(c, enc, bad) == set_option(c, "CURLOPT_ACCEPT_ENCODING", enc, bad)

SET_keepalive(c, on, bad) ==
    set_option(c, "CURLOPT_TCP_KEEPALIVE", IF on THEN 1 ELSE 0, bad)

SET_timeout(c, timeout, bad) ==
    set_option(c, "CURLOPT_TIMEOUT_MS", IF timeout > 0 THEN timeout ELSE 0, bad)

GET_timeout(c) ==
    IF "CURLOPT_TIMEOUT_MS" \in DOMAIN c._options
    THEN c._options["CURLOPT_TIMEOUT_MS"] ELSE 0

ADD_headers(c, headers, bad) ==
    IF ~c._handle.open THEN Throw(c, "handle_closed")
    ELSE IF headers = <<>> THEN Ok(c)
    ELSE set_option(
           [c EXCEPT !._header =
               @ \o [i \in 1..Len(headers) |-> headers[i][1] \o ": " \o headers[i][2]]],
           "CURLOPT_HTTPHEADER", "_header", bad)

\* frees the list and forgets the option in _options, but the easy handle keeps
\* the pointer it was given
RESET_headers(c) ==
    [c EXCEPT !._header = <<>>,
              !._options = Erase(@, "CURLOPT_HTTPHEADER"),
              !._handle = IF @.ptr = "live"
                          THEN [open |-> TRUE, ptr |-> "dangling", stale |-> c._header]
                          ELSE @]

RECURSIVE JoinFields(_)
JoinFields(fields) ==
    IF fields = <<>> THEN ""
    ELSE fields[1][1] \o "=" \o fields[1][2] \o "&" \o JoinFields(Tail(fields))

\* std::find / std::find_first_of from position b: the position of the first ch,
\* or Len(s) + 1 (the end iterator)
RECURSIVE FindFrom(_, _, _)
FindFrom(s, ch, b) ==
    IF b > Len(s) THEN Len(s) + 1
    ELSE IF SubSeq(s, b, b) = ch THEN b
    ELSE FindFrom(s, ch, b + 1)

\* std::string(s.c_str()): the characters before the first '\0'
CStr(s) == SubSeq(s, 1, FindFrom(s, NUL, 1) - 1)

pairs_to_fields_str(fields) ==
    LET s == JoinFields(fields)
    IN CStr(IF s # "" THEN SubSeq(s, 1, Len(s) - 1) ELSE s)

\* the loop of fields_str_to_map from position b
RECURSIVE ParseSegments(_, _)
ParseSegments(fstr, b) ==
    LET e == FindFrom(fstr, "&", b)
        s == SubSeq(fstr, b, e - 1)
        sep == FindFrom(s, "=", 1)
        res == IF s # "" /\ sep <= Len(s)
               THEN << <<SubSeq(s, 1, sep - 1), SubSeq(s, sep + 1, Len(s))>> >>
               ELSE <<>>
    IN IF e > Len(fstr) THEN res ELSE res \o ParseSegments(fstr, e + 1)

\* fields_str_to_map that drops the pairs with an empty value
fields_str_to_map_dropsEmptyValue(fstr) ==
    SelectSeq(ParseSegments(fstr, 1), LAMBDA kv : kv[2] # "")

fields_str_to_map(fstr) == ParseSegments(fstr, 1)

\* SET_fields without the is_closed() test
SET_fields_noClosedTest(c, fields, bad) ==
    IF fields # "" THEN set_option(c, "CURLOPT_COPYPOSTFIELDS", fields, bad)
    ELSE Ok(c)

SET_fields(c, fields, bad) ==
    IF ~c._handle.open THEN Throw(c, "handle_closed")
    ELSE IF fields # "" THEN set_option(c, "CURLOPT_COPYPOSTFIELDS", fields, bad)
    ELSE Ok(c)

(* --------------------------- HTTPConnection ---------------------------- *)

DEFAULT_ENCODING == "gzip"

_set_method(c, meth, bad) ==
    CASE meth = "http_get" -> set_option(c, "CURLOPT_HTTPGET", 1, bad)
      [] meth = "http_post" -> set_option(c, "CURLOPT_POST", 1, bad)
      [] meth = "http_delete" -> set_option(c, "CURLOPT_CUSTOMREQUEST", "DELETE", bad)
      [] meth = "http_put" -> set_option(c, "CURLOPT_CUSTOMREQUEST", "PUT", bad)
      [] OTHER -> Throw(c, "invalid_method")

set_method(c, meth, bad) ==
    Then(_set_method(c, meth, bad), LAMBDA d : Ok([d EXCEPT !._meth = meth]))

\* set_url that takes a url without the prefix for an http url
set_url_anyScheme(c, url, cbp, bad) ==
    LET r == IF StartsWith(url, "https://")
             THEN IF c._proto # "https"
                  THEN Then(IF cbp = "" THEN SET_ssl_verify(c, TRUE, bad)
                            ELSE SET_ssl_verify_using_ca_bundle(c, cbp, bad),
                            LAMBDA d : Ok([d EXCEPT !._proto = "https"]))
                  ELSE Ok(c)
             ELSE Ok([c EXCEPT !._proto = "http"])
    IN Then(r, LAMBDA d : SET_url(d, url, bad))

\* set_url without the test of _proto: every https url sets up the verification
set_url_alwaysVerifies(c, url, cbp, bad) ==
    LET r == IF StartsWith(url, "https://")
             THEN Then(IF cbp = "" THEN SET_ssl_verify(c, TRUE, bad)
                       ELSE SET_ssl_verify_using_ca_bundle(c, cbp, bad),
                       LAMBDA d : Ok([d EXCEPT !._proto = "https"]))
             ELSE IF StartsWith(url, "http://")
                  THEN Ok([c EXCEPT !._proto = "http"])
                  ELSE Throw(c, "invalid_protocol")
    IN Then(r, LAMBDA d : SET_url(d, url, bad))

set_url(c, url, cbp, bad) ==
    LET r == IF StartsWith(url, "https://")
             THEN IF c._proto # "https"
                  THEN Then(IF cbp = "" THEN SET_ssl_verify(c, TRUE, bad)
                            ELSE SET_ssl_verify_using_ca_bundle(c, cbp, bad),
                            LAMBDA d : Ok([d EXCEPT !._proto = "https"]))
                  ELSE Ok(c)
             ELSE IF StartsWith(url, "http://")
                  THEN Ok([c EXCEPT !._proto = "http"])
                  ELSE Throw(c, "invalid_protocol")
    IN Then(r, LAMBDA d : SET_url(d, url, bad))

\* HTTPConnection(HttpMethod)
HTTPConnectionM(meth, bad) ==
    Then(Then(Then(CurlConnectionImpl_(bad),
        LAMBDA c : Then(_set_method(c, meth, bad),
                        LAMBDA d : Ok([d EXCEPT !._meth = meth]))),
        LAMBDA c : SET_encoding(c, DEFAULT_ENCODING, bad)),
        LAMBDA c : SET_keepalive(c, TRUE, bad))

\* HTTPConnection(const std::string&, HttpMethod)
HTTPConnection(url, meth, cbp, bad) ==
    Then(HTTPConnectionM(meth, bad), LAMBDA c : set_url(c, url, cbp, bad))

(* ------------------- SharedHTTPConnection: registry -------------------- *)
\* contexts maps an id to a Context [conn, mtx, nref]; conn is <<>> (nullptr) or
\* <<connection>>; mtx is -1 (nullptr), 0 (unlocked) or the thread holding it.

\* Context()
DefaultContext == [conn |-> <<>>, mtx |-> -1, nref |-> 0]

\* Context(HTTPConnection*)
Context(c) == [conn |-> <<c>>, mtx |-> 0, nref |-> 0]

\* decr_ref / incr_ref return the new map, or AssertFailed (a map on the key 0,
\* which is no id) where one of their assertions fails
AssertFailed == [o \in {0} |-> DefaultContext]

\* decr_ref that erases the entry at every decrement
decr_ref_erasesAlways(ctxs, id) ==
    IF id \notin DOMAIN ctxs THEN AssertFailed
    ELSE IF ctxs[id].conn = <<>> THEN AssertFailed
    ELSE IF ctxs[id].nref - 1 < 0 THEN AssertFailed
    ELSE Erase(ctxs, id)

decr_ref(ctxs, id) ==
    IF id \notin DOMAIN ctxs THEN AssertFailed
    ELSE IF ctxs[id].conn = <<>> THEN AssertFailed
    ELSE IF ctxs[id].nref - 1 < 0 THEN AssertFailed
    ELSE IF ctxs[id].nref - 1 = 0 THEN Erase(ctxs, id)
    ELSE [ctxs EXCEPT ![id].nref = @ - 1]

incr_ref(ctxs, id) ==
    IF id \notin DOMAIN ctxs THEN AssertFailed
    ELSE IF ctxs[id].conn = <<>> THEN AssertFailed
    ELSE [ctxs EXCEPT ![id].nref = @ + 1]

nconnections(id) == IF id \notin DOMAIN contexts THEN 0 ELSE contexts[id].nref

(* ------------------- SharedHTTPConnection: front-end -------------------- *)

NoFE == [live |-> FALSE, _is_open |-> FALSE, _url |-> "", _meth |-> "",
         _headers |-> <<>>, _fields |-> <<>>, _timeout |-> 0, _id |-> 0]

\* the operation a thread is in: its name, *this (f), the other operand (g), the
\* url passed to the constructor or to set_url, the id asked about and the value read
\* (nconnections)
NoArg == [op |-> "none", f |-> 0, g |-> 0, url |-> "", id |-> 0, res |-> 0]

is_closed(f) == ~fe[f]._is_open

Idle(t) == pc[t] = "idle" /\ ~aborted

\* a front-end object is not synchronised: one thread at a time uses it, as
\* *this or as the other operand
InUse(f) == \E t \in Threads : pc[t] # "idle" /\ (arg[t].f = f \/ arg[t].g = f)

\* an exception leaves the operation: the caller sees it
Raise(t, e) == /\ pc' = [pc EXCEPT ![t] = "threw"]
               /\ exc' = [exc EXCEPT ![t] = e]

\* a failed assertion ends the process
Abort == /\ aborted' = TRUE
         /\ UNCHANGED <<contexts, contexts_mtx, certificate_bundle_path, plain, util, fe, pc,
                        arg, exc, wire>>

Catch(t) ==
    /\ pc[t] = "threw" /\ ~aborted
    /\ pc' = [pc EXCEPT ![t] = "idle"]
    /\ exc' = [exc EXCEPT ![t] = "none"]
    /\ arg' = [arg EXCEPT ![t] = NoArg]
    /\ UNCHANGED <<contexts, contexts_mtx, certificate_bundle_path, plain, util, fe, wire, aborted>>

(* constructor, lines 623-659 *)

CtorBegin(t, f, url, meth, id) ==
    /\ Idle(t) /\ ~InUse(f) /\ ~fe[f].live
    /\ fe' = [fe EXCEPT ![f] = [live |-> TRUE, _is_open |-> FALSE, _url |-> url,
                                _meth |-> meth, _headers |-> <<>>, _fields |-> <<>>,
                                _timeout |-> 0, _id |-> id]]
    /\ arg' = [arg EXCEPT ![t] = [NoArg EXCEPT !.op = "ctor", !.f = f, !.url = url]]
    /\ pc' = [pc EXCEPT ![t] = "ctor_lock"]
    /\ UNCHANGED <<contexts, contexts_mtx, certificate_bundle_path, plain, util, exc, wire, aborted>>

\* new id: contexts[context_id] = Context(new HTTPConnection(...)); incr_ref
NewConnection(url, meth, bad) ==
    IF url = "" THEN HTTPConnectionM(meth, bad)
    ELSE HTTPConnection(url, meth, certificate_bundle_path, bad)

\* constructor that inserts a new Context without the find
CtorNew_noFind(t, bad) ==
    LET a == fe[arg[t].f]
        r == NewConnection(a._url, a._meth, bad)
    IN /\ pc[t] = "ctor_lock" /\ ~aborted /\ contexts_mtx = 0
       /\ r.err = "none"
       /\ contexts' = incr_ref(Put(contexts, a._id, Context(r.c)), a._id)
       /\ pc' = [pc EXCEPT ![t] = "ctor_open"]
       /\ UNCHANGED <<contexts_mtx, certificate_bundle_path, plain, util, fe, arg, exc, wire, aborted>>

CtorNew(t, bad) ==
    LET a == fe[arg[t].f]
        r == NewConnection(a._url, a._meth, bad)
    IN /\ pc[t] = "ctor_lock" /\ ~aborted /\ contexts_mtx = 0
       /\ a._id \notin DOMAIN contexts
       /\ r.err = "none"
       /\ contexts' = incr_ref(Put(contexts, a._id, Context(r.c)), a._id)
       /\ pc' = [pc EXCEPT ![t] = "ctor_open"]
       /\ UNCHANGED <<contexts_mtx, certificate_bundle_path, plain, util, fe, arg, exc, wire, aborted>>

\* The two sides of that assignment are not ordered before C++17: when the
\* connection's constructor throws, contexts[context_id] may already have
\* inserted a default Context (lhsFirst) or not.
CtorNewThrows(t, bad, lhsFirst) ==
    LET a == fe[arg[t].f]
        r == NewConnection(a._url, a._meth, bad)
    IN /\ pc[t] = "ctor_lock" /\ ~aborted /\ contexts_mtx = 0
       /\ a._id \notin DOMAIN contexts
       /\ r.err # "none"
       /\ contexts' = IF lhsFirst THEN Put(contexts, a._id, DefaultContext)
                      ELSE contexts
       /\ fe' = [fe EXCEPT ![arg[t].f] = NoFE]
       /\ Raise(t, r.err)
       /\ UNCHANGED <<contexts_mtx, certificate_bundle_path, plain, util, arg, wire, aborted>>

\* constructor that goes for the context's own mutex without contexts_mtx
CtorFound_noGlobalLock(t) ==
    /\ pc[t] = "ctor_lock" /\ ~aborted /\ contexts_mtx = 0
    /\ fe[arg[t].f]._id \in DOMAIN contexts
    /\ IF contexts[fe[arg[t].f]._id].nref > 0
       THEN /\ pc' = [pc EXCEPT ![t] = "ctor_wait"]
            /\ UNCHANGED <<contexts, contexts_mtx, certificate_bundle_path, plain, util, fe,
                           arg, exc, wire, aborted>>
       ELSE Abort

\* existing id: the assertion, then the thread keeps contexts_mtx and goes for
\* the context's own mutex
CtorFound(t) ==
    /\ pc[t] = "ctor_lock" /\ ~aborted /\ contexts_mtx = 0
    /\ fe[arg[t].f]._id \in DOMAIN contexts
    /\ IF contexts[fe[arg[t].f]._id].nref > 0
       THEN /\ contexts_mtx' = t
            /\ pc' = [pc EXCEPT ![t] = "ctor_wait"]
            /\ UNCHANGED <<contexts, certificate_bundle_path, plain, util, fe, arg, exc, wire, aborted>>
       ELSE Abort

\* constructor that configures the connection without the lock_guard on its mutex
CtorConfig_noLock(t, bad) ==
    LET a == fe[arg[t].f]
        ctx == contexts[a._id]
        r == Then(set_method(ctx.conn[1], a._meth, bad),
                  LAMBDA c : IF a._url # ""
                             THEN set_url(c, a._url, certificate_bundle_path, bad)
                             ELSE Ok(c))
        cfgd == [contexts EXCEPT ![a._id].conn = <<r.c>>]
    IN /\ pc[t] = "ctor_wait" /\ ~aborted
       /\ contexts_mtx' = 0
       /\ IF r.err = "none"
          THEN /\ contexts' = incr_ref(cfgd, a._id)
               /\ pc' = [pc EXCEPT ![t] = "ctor_open"]
               /\ UNCHANGED <<fe, exc>>
          ELSE /\ contexts' = cfgd
               /\ fe' = [fe EXCEPT ![arg[t].f] = NoFE]
               /\ Raise(t, r.err)
       /\ UNCHANGED <<certificate_bundle_path, plain, util, arg, wire, aborted>>

CtorConfig(t, bad) ==
    LET a == fe[arg[t].f]
        ctx == contexts[a._id]
        r == Then(set_method(ctx.conn[1], a._meth, bad),
                  LAMBDA c : IF a._url # ""
                             THEN set_url(c, a._url, certificate_bundle_path, bad)
                             ELSE Ok(c))
        cfgd == [contexts EXCEPT ![a._id].conn = <<r.c>>]
    IN /\ pc[t] = "ctor_wait" /\ ~aborted
       /\ ctx.mtx = 0
       /\ contexts_mtx' = 0
       /\ IF r.err = "none"
          THEN /\ contexts' = incr_ref(cfgd, a._id)
               /\ pc' = [pc EXCEPT ![t] = "ctor_open"]
               /\ UNCHANGED <<fe, exc>>
          ELSE /\ contexts' = cfgd
               /\ fe' = [fe EXCEPT ![arg[t].f] = NoFE]
               /\ Raise(t, r.err)
       /\ UNCHANGED <<certificate_bundle_path, plain, util, arg, wire, aborted>>

CtorOpen(t) ==
    /\ pc[t] = "ctor_open" /\ ~aborted
    /\ fe' = [fe EXCEPT ![arg[t].f]._is_open = TRUE]
    /\ pc' = [pc EXCEPT ![t] = "idle"]
    /\ arg' = [arg EXCEPT ![t] = NoArg]
    /\ UNCHANGED <<contexts, contexts_mtx, certificate_bundle_path, plain, util, exc, wire, aborted>>

\* the operation returns; "noop" is the return of an operation that found
\* nothing to do
Return(t) ==
    /\ pc[t] \in {"ret", "noop"} /\ ~aborted
    /\ pc' = [pc EXCEPT ![t] = "idle"]
    /\ arg' = [arg EXCEPT ![t] = NoArg]
    /\ UNCHANGED <<contexts, contexts_mtx, certificate_bundle_path, plain, util, fe, exc, wire, aborted>>

(* copy constructor, lines 662-676 *)

CopyBegin(t, f, g) ==
    /\ Idle(t) /\ ~InUse(f) /\ ~InUse(g) /\ ~fe[f].live /\ fe[g].live
    /\ fe' = [fe EXCEPT ![f] = fe[g]]
    /\ arg' = [arg EXCEPT ![t] = [NoArg EXCEPT !.op = "copy", !.f = f, !.g = g]]
    /\ pc' = [pc EXCEPT ![t] = IF fe[g]._is_open THEN "copy_lock" ELSE "ret"]
    /\ UNCHANGED <<contexts, contexts_mtx, certificate_bundle_path, plain, util, exc, wire, aborted>>

\* copy constructor that takes no reference
CopyIncr_noIncr(t) ==
    /\ pc[t] = "copy_lock" /\ ~aborted /\ contexts_mtx = 0
    /\ pc' = [pc EXCEPT ![t] = "ret"]
    /\ UNCHANGED <<contexts, contexts_mtx, certificate_bundle_path, plain, util, fe, arg,
                   exc, wire, aborted>>

CopyIncr(t) ==
    LET n == incr_ref(contexts, fe[arg[t].g]._id)
    IN /\ pc[t] = "copy_lock" /\ ~aborted /\ contexts_mtx = 0
       /\ IF n = AssertFailed THEN Abort
          ELSE /\ contexts' = n
               /\ pc' = [pc EXCEPT ![t] = "ret"]
               /\ UNCHANGED <<contexts_mtx, certificate_bundle_path, plain, util, fe, arg, exc,
                              wire, aborted>>

(* operator=, lines 679-704 *)

AssignBegin(t, f, g) ==
    /\ Idle(t) /\ ~InUse(f) /\ ~InUse(g) /\ f # g /\ fe[f].live /\ fe[g].live
    /\ arg' = [arg EXCEPT ![t] = [NoArg EXCEPT !.op = "assign", !.f = f, !.g = g]]
    /\ pc' = [pc EXCEPT ![t] = IF fe[f] # fe[g] THEN "assign_lock" ELSE "noop"]
    /\ UNCHANGED <<contexts, contexts_mtx, certificate_bundle_path, plain, util, fe, exc, wire, aborted>>

\* operator= whose lock_guard ends between decr_ref and incr_ref
AssignRefs_unlocks(t) ==
    LET this == fe[arg[t].f]
        connection == fe[arg[t].g]
        swap == this._is_open = connection._is_open
                  /\ this._id # connection._id /\ this._is_open
        n == IF this._is_open # connection._is_open
             THEN IF connection._is_open THEN incr_ref(contexts, connection._id)
                  ELSE decr_ref(contexts, this._id)
             ELSE IF swap THEN decr_ref(contexts, this._id)
             ELSE contexts
    IN /\ pc[t] = "assign_lock" /\ ~aborted /\ contexts_mtx = 0
       /\ IF n = AssertFailed THEN Abort
          ELSE /\ contexts' = n
               /\ contexts_mtx' = 0
               /\ pc' = [pc EXCEPT ![t] = IF swap THEN "assign_incr" ELSE "assign_adopt"]
               /\ UNCHANGED <<certificate_bundle_path, plain, util, fe, arg, exc, wire, aborted>>

AssignRefs(t) ==
    LET this == fe[arg[t].f]
        connection == fe[arg[t].g]
        swap == this._is_open = connection._is_open
                  /\ this._id # connection._id /\ this._is_open
        n == IF this._is_open # connection._is_open
             THEN IF connection._is_open THEN incr_ref(contexts, connection._id)
                  ELSE decr_ref(contexts, this._id)
             ELSE IF swap THEN decr_ref(contexts, this._id)
             ELSE contexts
    IN /\ pc[t] = "assign_lock" /\ ~aborted /\ contexts_mtx = 0
       /\ IF n = AssertFailed THEN Abort
          ELSE /\ contexts' = n
               /\ contexts_mtx' = IF swap THEN t ELSE 0
               /\ pc' = [pc EXCEPT ![t] = IF swap THEN "assign_incr" ELSE "assign_adopt"]
               /\ UNCHANGED <<certificate_bundle_path, plain, util, fe, arg, exc, wire, aborted>>

AssignIncr(t) ==
    LET n == incr_ref(contexts, fe[arg[t].g]._id)
    IN /\ pc[t] = "assign_incr" /\ ~aborted
       /\ IF n = AssertFailed THEN Abort
          ELSE /\ contexts' = n
               /\ contexts_mtx' = 0
               /\ pc' = [pc EXCEPT ![t] = "assign_adopt"]
               /\ UNCHANGED <<certificate_bundle_path, plain, util, fe, arg, exc, wire, aborted>>

\* operator= that forgets _id = connection._id
AssignAdopt_keepsId(t) ==
    /\ pc[t] = "assign_adopt" /\ ~aborted
    /\ fe' = [fe EXCEPT ![arg[t].f] = [fe[arg[t].g] EXCEPT !._id = fe[arg[t].f]._id]]
    /\ pc' = [pc EXCEPT ![t] = "ret"]
    /\ UNCHANGED <<contexts, contexts_mtx, certificate_bundle_path, plain, util, arg, exc, wire, aborted>>

AssignAdopt(t) ==
    /\ pc[t] = "assign_adopt" /\ ~aborted
    /\ fe' = [fe EXCEPT ![arg[t].f] = fe[arg[t].g]]
    /\ pc' = [pc EXCEPT ![t] = "ret"]
    /\ UNCHANGED <<contexts, contexts_mtx, certificate_bundle_path, plain, util, arg, exc, wire, aborted>>

(* close, lines 761-771, and the destructor, which closes *)

\* close without the is_closed() test
CloseBegin_noTest(t, f) ==
    /\ Idle(t) /\ ~InUse(f) /\ fe[f].live
    /\ arg' = [arg EXCEPT ![t] = [NoArg EXCEPT !.op = "close", !.f = f]]
    /\ pc' = [pc EXCEPT ![t] = "close_lock"]
    /\ UNCHANGED <<contexts, contexts_mtx, certificate_bundle_path, plain, util, fe, exc, wire, aborted>>

CloseBegin(t, f) ==
    /\ Idle(t) /\ ~InUse(f) /\ fe[f].live
    /\ arg' = [arg EXCEPT ![t] = [NoArg EXCEPT !.op = "close", !.f = f]]
    /\ pc' = [pc EXCEPT ![t] = IF is_closed(f) THEN "noop" ELSE "close_lock"]
    /\ UNCHANGED <<contexts, contexts_mtx, certificate_bundle_path, plain, util, fe, exc, wire, aborted>>

CloseDecr(t) ==
    LET n == decr_ref(contexts, fe[arg[t].f]._id)
    IN /\ pc[t] = "close_lock" /\ ~aborted /\ contexts_mtx = 0
       /\ IF n = AssertFailed THEN Abort
          ELSE /\ contexts' = n
               /\ pc' = [pc EXCEPT ![t] = "close_mark"]
               /\ UNCHANGED <<contexts_mtx, certificate_bundle_path, plain, util, fe, arg, exc,
                              wire, aborted>>

CloseMark(t) ==
    /\ pc[t] = "close_mark" /\ ~aborted
    /\ fe' = [fe EXCEPT ![arg[t].f] = IF arg[t].op = "dtor" THEN NoFE
                                      ELSE [@ EXCEPT !._is_open = FALSE]]
    /\ pc' = [pc EXCEPT ![t] = "ret"]
    /\ UNCHANGED <<contexts, contexts_mtx, certificate_bundle_path, plain, util, arg, exc, wire, aborted>>

Destroy(t, f) ==
    /\ Idle(t) /\ ~InUse(f) /\ fe[f].live
    /\ arg' = [arg EXCEPT ![t] = [NoArg EXCEPT !.op = "dtor", !.f = f]]
    /\ pc' = [pc EXCEPT ![t] = IF is_closed(f) THEN "ret" ELSE "close_lock"]
    /\ fe' = IF is_closed(f) THEN [fe EXCEPT ![f] = NoFE] ELSE fe
    /\ UNCHANGED <<contexts, contexts_mtx, certificate_bundle_path, plain, util, exc, wire, aborted>>

(* nconnections, lines 810-816 *)

NConnectionsBegin(t, id) ==
    /\ Idle(t)
    /\ arg' = [arg EXCEPT ![t] = [NoArg EXCEPT !.op = "nconnections", !.id = id]]
    /\ pc' = [pc EXCEPT ![t] = "ncon_lock"]
    /\ UNCHANGED <<contexts, contexts_mtx, certificate_bundle_path, plain, util, fe, exc, wire, aborted>>

NConnections(t) ==
    /\ pc[t] = "ncon_lock" /\ ~aborted /\ contexts_mtx = 0
    /\ arg' = [arg EXCEPT ![t].res = nconnections(arg[t].id)]
    /\ pc' = [pc EXCEPT ![t] = "ret"]
    /\ UNCHANGED <<contexts, contexts_mtx, certificate_bundle_path, plain, util, fe, exc, wire, aborted>>

(* setters of the pending parameters: they touch the front-end only *)

\* std::regex_search(url, "http[s]?\\://", match_continuous)
MatchesPROTO_RX(url) ==
    /\ StartsWith(url, "http")
    /\ LET rest == SubSeq(url, 5, Len(url))
       IN StartsWith(rest, "s://") \/ StartsWith(rest, "://")

\* set_url that stores the url before it tests it
SetUrl_storesBeforeCheck(t, f, url) ==
    /\ Idle(t) /\ ~InUse(f) /\ fe[f].live
    /\ arg' = [arg EXCEPT ![t] = [NoArg EXCEPT !.op = "set_url", !.f = f,
                                          !.url = url]]
    /\ IF ~MatchesPROTO_RX(url)
       THEN /\ Raise(t, "invalid_protocol")
            /\ fe' = [fe EXCEPT ![f]._url = url]
       ELSE /\ fe' = [fe EXCEPT ![f]._url = url]
            /\ pc' = [pc EXCEPT ![t] = "ret"]
            /\ UNCHANGED exc
    /\ UNCHANGED <<contexts, contexts_mtx, certificate_bundle_path, plain, util, wire, aborted>>

SetUrl(t, f, url) ==
    /\ Idle(t) /\ ~InUse(f) /\ fe[f].live
    /\ arg' = [arg EXCEPT ![t] = [NoArg EXCEPT !.op = "set_url", !.f = f,
                                          !.url = url]]
    /\ IF ~MatchesPROTO_RX(url)
       THEN /\ Raise(t, "invalid_protocol")
            /\ UNCHANGED fe
       ELSE /\ fe' = [fe EXCEPT ![f]._url = url]
            /\ pc' = [pc EXCEPT ![t] = "ret"]
            /\ UNCHANGED exc
    /\ UNCHANGED <<contexts, contexts_mtx, certificate_bundle_path, plain, util, wire, aborted>>

SetMethod(t, f, meth) ==
    /\ Idle(t) /\ ~InUse(f) /\ fe[f].live /\ fe[f]._meth # meth
    /\ fe' = [fe EXCEPT ![f]._meth = meth]
    /\ UNCHANGED <<contexts, contexts_mtx, certificate_bundle_path, plain, util, pc, arg, exc,
                   wire, aborted>>

AddHeaders(t, f, headers) ==
    /\ Idle(t) /\ ~InUse(f) /\ fe[f].live
    /\ Len(fe[f]._headers) + Len(headers) <= MaxHeaders
    /\ fe' = [fe EXCEPT ![f]._headers = @ \o headers]
    /\ UNCHANGED <<contexts, contexts_mtx, certificate_bundle_path, plain, util, pc, arg, exc,
                   wire, aborted>>

SetFields(t, f, fields) ==
    /\ Idle(t) /\ ~InUse(f) /\ fe[f].live /\ fe[f]._fields # fields
    /\ fe' = [fe EXCEPT ![f]._fields = fields]
    /\ UNCHANGED <<contexts, contexts_mtx, certificate_bundle_path, plain, util, pc, arg, exc,
                   wire, aborted>>

SetTimeout(t, f, timeout) ==
    /\ Idle(t) /\ ~InUse(f) /\ fe[f].live /\ fe[f]._timeout # timeout
    /\ fe' = [fe EXCEPT ![f]._timeout = timeout]
    /\ UNCHANGED <<contexts, contexts_mtx, certificate_bundle_path, plain, util, pc, arg, exc,
                   wire, aborted>>

(* execute, lines 719-746, with _get_context, lines 748-759 *)

NoWire == <<>>

\* what the engine sends for connection c: the options of the easy handle
Request(c, f, pushed) ==
    [by |-> f,
     url |-> GET_url(c),
     headers |-> CASE c._handle.ptr = "null" -> <<>>
                   [] c._handle.ptr = "live" -> c._header
                   [] c._handle.ptr = "dangling" -> c._handle.stale,
     meth |-> c._meth,
     timeout |-> GET_timeout(c),
     body |-> IF c._meth # "http_get" /\ "CURLOPT_COPYPOSTFIELDS" \in DOMAIN c._options
              THEN c._options["CURLOPT_COPYPOSTFIELDS"] ELSE "",
     pushed |-> pushed]

\* execute without the is_closed() test
ExecBegin_noTest(t, f) ==
    /\ Idle(t) /\ ~InUse(f) /\ fe[f].live
    /\ arg' = [arg EXCEPT ![t] = [NoArg EXCEPT !.op = "execute", !.f = f]]
    /\ pc' = [pc EXCEPT ![t] = "exec_resolve"]
    /\ UNCHANGED <<contexts, contexts_mtx, certificate_bundle_path, plain, util, fe, exc,
                   wire, aborted>>

ExecBegin(t, f) ==
    /\ Idle(t) /\ ~InUse(f) /\ fe[f].live
    /\ arg' = [arg EXCEPT ![t] = [NoArg EXCEPT !.op = "execute", !.f = f]]
    /\ IF is_closed(f)
       THEN Raise(t, "connection_closed")
       ELSE /\ pc' = [pc EXCEPT ![t] = "exec_resolve"]
            /\ UNCHANGED exc
    /\ UNCHANGED <<contexts, contexts_mtx, certificate_bundle_path, plain, util, fe, wire, aborted>>

\* _get_context that returns with contexts_mtx still locked
ExecResolve_keepsLock(t) ==
    LET id == fe[arg[t].f]._id
    IN /\ pc[t] = "exec_resolve" /\ ~aborted /\ contexts_mtx = 0
       /\ IF id \in DOMAIN contexts /\ contexts[id].conn # <<>> /\ contexts[id].mtx # -1
          THEN /\ pc' = [pc EXCEPT ![t] = "exec_wait"]
               /\ contexts_mtx' = t
               /\ UNCHANGED <<contexts, certificate_bundle_path, plain, util, fe, arg,
                              exc, wire, aborted>>
          ELSE Abort

\* _get_context and the two assertions on its result
ExecResolve(t) ==
    LET id == fe[arg[t].f]._id
    IN /\ pc[t] = "exec_resolve" /\ ~aborted /\ contexts_mtx = 0
       /\ IF id \in DOMAIN contexts /\ contexts[id].conn # <<>> /\ contexts[id].mtx # -1
          THEN /\ pc' = [pc EXCEPT ![t] = "exec_wait"]
               /\ UNCHANGED <<contexts, contexts_mtx, certificate_bundle_path, plain, util, fe, arg,
                              exc, wire, aborted>>
          ELSE Abort

\* execute that marks the front-end closed when the configuration fails
ExecConfigUrl_closesOnError(t, bad) ==
    LET this == fe[arg[t].f]
        id == this._id
        r == Then(Then(set_url(contexts[id].conn[1], this._url,
                               certificate_bundle_path, bad),
                  LAMBDA c : Ok(RESET_headers(c))),
                  LAMBDA c : IF this._headers # <<>>
                             THEN ADD_headers(c, this._headers, bad) ELSE Ok(c))
    IN /\ pc[t] = "exec_wait" /\ ~aborted
       /\ id \in DOMAIN contexts
       /\ contexts[id].mtx = 0
       /\ IF r.err = "none"
          THEN /\ contexts' = [contexts EXCEPT ![id].conn = <<r.c>>, ![id].mtx = t]
               /\ pc' = [pc EXCEPT ![t] = "exec_cfg"]
               /\ UNCHANGED <<exc, fe>>
          ELSE /\ contexts' = [contexts EXCEPT ![id].conn = <<r.c>>, ![id].mtx = 0]
               /\ fe' = [fe EXCEPT ![arg[t].f]._is_open = FALSE]
               /\ Raise(t, r.err)
       /\ UNCHANGED <<contexts_mtx, certificate_bundle_path, plain, util, arg, wire, aborted>>

\* the lock_guard on *ctx.mtx, then set_url, reset_headers, add_headers
ExecConfigUrl(t, bad) ==
    LET this == fe[arg[t].f]
        id == this._id
        r == Then(Then(set_url(contexts[id].conn[1], this._url,
                               certificate_bundle_path, bad),
                  LAMBDA c : Ok(RESET_headers(c))),
                  LAMBDA c : IF this._headers # <<>>
                             THEN ADD_headers(c, this._headers, bad) ELSE Ok(c))
    IN /\ pc[t] = "exec_wait" /\ ~aborted
       /\ id \in DOMAIN contexts
       /\ contexts[id].mtx = 0
       /\ IF r.err = "none"
          THEN /\ contexts' = [contexts EXCEPT ![id].conn = <<r.c>>, ![id].mtx = t]
               /\ pc' = [pc EXCEPT ![t] = "exec_cfg"]
               /\ UNCHANGED exc
          ELSE /\ contexts' = [contexts EXCEPT ![id].conn = <<r.c>>, ![id].mtx = 0]
               /\ Raise(t, r.err)
       /\ UNCHANGED <<contexts_mtx, certificate_bundle_path, plain, util, fe, arg, wire, aborted>>

\* execute that clears _fields only after set_fields
ExecConfigBody_clearsIfPushed(t, bad, crash) ==
    LET this == fe[arg[t].f]
        id == this._id
        push == this._meth # "http_get" /\ this._fields # <<>>
        body == pairs_to_fields_str(this._fields)
        r1 == Then(set_method(contexts[id].conn[1], this._meth, bad),
                   LAMBDA c : IF push THEN SET_fields(c, body, bad) ELSE Ok(c))
        r == Then(Then(r1,
                  LAMBDA c : SET_timeout(c, this._timeout, bad)),
                  LAMBDA c : set_option(c, "CURLOPT_WRITEFUNCTION", "write", bad))
    IN /\ pc[t] = "exec_cfg" /\ ~aborted
       /\ id \in DOMAIN contexts
       /\ IF r.err = "none" /\ r.c._handle.ptr = "dangling" /\ crash
          THEN Abort
          ELSE /\ fe' = IF r1.err = "none" /\ push
                        THEN [fe EXCEPT ![arg[t].f]._fields = <<>>]
                        ELSE fe
               /\ IF r.err = "none"
                  THEN /\ contexts' = [contexts EXCEPT ![id].conn = <<r.c>>]
                       /\ wire' = [wire EXCEPT ![t] =
                              <<Request(r.c, arg[t].f, IF push THEN body ELSE "")>>]
                       /\ pc' = [pc EXCEPT ![t] = "exec_io"]
                       /\ UNCHANGED exc
                  ELSE /\ contexts' = [contexts EXCEPT ![id].conn = <<r.c>>,
                                                       ![id].mtx = 0]
                       /\ Raise(t, r.err)
                       /\ UNCHANGED wire
               /\ UNCHANGED <<contexts_mtx, certificate_bundle_path, plain, util, arg, aborted>>

\* set_method, set_fields, _fields.clear(), set_timeout, then the connection's
\* execute up to curl_easy_perform; crash is how a build may take the use of a
\* CURLOPT_HTTPHEADER list that RESET_headers freed
ExecConfigBody(t, bad, crash) ==
    LET this == fe[arg[t].f]
        id == this._id
        push == this._meth # "http_get" /\ this._fields # <<>>
        body == pairs_to_fields_str(this._fields)
        r1 == Then(set_method(contexts[id].conn[1], this._meth, bad),
                   LAMBDA c : IF push THEN SET_fields(c, body, bad) ELSE Ok(c))
        r == Then(Then(r1,
                  LAMBDA c : SET_timeout(c, this._timeout, bad)),
                  LAMBDA c : set_option(c, "CURLOPT_WRITEFUNCTION", "write", bad))
    IN /\ pc[t] = "exec_cfg" /\ ~aborted
       /\ id \in DOMAIN contexts
       /\ IF r.err = "none" /\ r.c._handle.ptr = "dangling" /\ crash
          THEN Abort
          ELSE /\ fe' = IF r1.err = "none" THEN [fe EXCEPT ![arg[t].f]._fields = <<>>]
                        ELSE fe
               /\ IF r.err = "none"
                  THEN /\ contexts' = [contexts EXCEPT ![id].conn = <<r.c>>]
                       /\ wire' = [wire EXCEPT ![t] =
                              <<Request(r.c, arg[t].f, IF push THEN body ELSE "")>>]
                       /\ pc' = [pc EXCEPT ![t] = "exec_io"]
                       /\ UNCHANGED exc
                  ELSE /\ contexts' = [contexts EXCEPT ![id].conn = <<r.c>>,
                                                       ![id].mtx = 0]
                       /\ Raise(t, r.err)
                       /\ UNCHANGED wire
               /\ UNCHANGED <<contexts_mtx, certificate_bundle_path, plain, util, arg, aborted>>

\* execute that unlocks the entry on the normal return only
ExecReturn_locksOnError(t, ccode) ==
    LET id == fe[arg[t].f]._id
    IN /\ pc[t] = "exec_io" /\ ~aborted
       /\ id \in DOMAIN contexts
       /\ contexts' = IF ccode = "CURLE_OK" THEN [contexts EXCEPT ![id].mtx = 0]
                      ELSE contexts
       /\ wire' = [wire EXCEPT ![t] = NoWire]
       /\ IF ccode = "CURLE_OK"
          THEN /\ pc' = [pc EXCEPT ![t] = "ret"]
               /\ UNCHANGED exc
          ELSE Raise(t, "connection_error")
       /\ UNCHANGED <<contexts_mtx, certificate_bundle_path, plain, util, fe, arg, aborted>>

\* curl_easy_perform returns: CURLE_OK or not
ExecReturn(t, ccode) ==
    LET id == fe[arg[t].f]._id
    IN /\ pc[t] = "exec_io" /\ ~aborted
       /\ id \in DOMAIN contexts
       /\ contexts' = [contexts EXCEPT ![id].mtx = 0]
       /\ wire' = [wire EXCEPT ![t] = NoWire]
       /\ IF ccode = "CURLE_OK"
          THEN /\ pc' = [pc EXCEPT ![t] = "ret"]
               /\ UNCHANGED exc
          ELSE Raise(t, "connection_error")
       /\ UNCHANGED <<contexts_mtx, certificate_bundle_path, plain, util, fe, arg, aborted>>

(* ---------------- a plain HTTPConnection, lines 577-617 ------------------ *)
\* plain is one HTTPConnection object that one caller owns: its connection
\* (<<>> before it is constructed), the last call made on it, the url given to
\* that call and the exception it threw

NoPlain == [conn |-> <<>>, op |-> "none", url |-> "", err |-> "none"]

PlainFrame == UNCHANGED <<contexts, contexts_mtx, certificate_bundle_path, fe, pc,
                          arg, exc, wire, aborted, util>>

PlainConstruct(url, meth, bad) ==
    LET r == HTTPConnection(url, meth, certificate_bundle_path, bad)
    IN /\ plain.conn = <<>> /\ ~aborted
       /\ plain' = [conn |-> IF r.err = "none" THEN <<r.c>> ELSE <<>>,
                    op |-> "ctor", url |-> url, err |-> r.err]
       /\ PlainFrame

PlainSetUrl(url, bad) ==
    LET r == set_url(plain.conn[1], url, certificate_bundle_path, bad)
    IN /\ plain.conn # <<>> /\ ~aborted
       /\ plain' = [conn |-> <<r.c>>, op |-> "set_url", url |-> url, err |-> r.err]
       /\ PlainFrame

\* close() and the configuration calls of CurlConnection, lines 464-543

PlainClose ==
    /\ plain.conn # <<>> /\ ~aborted
    /\ plain' = [conn |-> <<close(plain.conn[1])>>, op |-> "close", url |-> "",
                 err |-> "none"]
    /\ PlainFrame

\* the call op has given r
PlainCall(op, r) ==
    /\ plain.conn # <<>> /\ ~aborted
    /\ plain' = [conn |-> <<r.c>>, op |-> op, url |-> "", err |-> r.err]
    /\ PlainFrame

PlainSetOption(bad) ==
    PlainCall("set_option", set_option(plain.conn[1], "CURLOPT_VERBOSE", 1, bad))

PlainSetTimeout(timeout, bad) ==
    PlainCall("set_timeout", SET_timeout(plain.conn[1], timeout, bad))

PlainAddHeaders(headers, bad) ==
    /\ plain.conn # <<>>
    /\ Len(plain.conn[1]._header) + Len(headers) <= MaxHeaders
    /\ PlainCall("add_headers", ADD_headers(plain.conn[1], headers, bad))

PlainResetHeaders ==
    PlainCall("reset_headers", Ok(RESET_headers(plain.conn[1])))

PlainSetFields(fields, bad) ==
    PlainCall("set_fields", SET_fields(plain.conn[1], pairs_to_fields_str(fields), bad))

\* CurlConnectionImpl_::execute, lines 195-226: the handle test, the write
\* callbacks, curl_easy_perform; crash is how a build may take the use of a
\* CURLOPT_HTTPHEADER list that RESET_headers freed
PlainExecute(bad, ccode, crash) ==
    LET c == plain.conn[1]
        r == IF ~c._handle.open THEN Throw(c, "handle_closed")
             ELSE Then(set_option(c, "CURLOPT_WRITEFUNCTION", "write", bad),
                       LAMBDA d : set_option(d, "CURLOPT_WRITEDATA", "cb_data", bad))
    IN /\ plain.conn # <<>> /\ ~aborted
       /\ IF r.err = "none" /\ c._handle.ptr = "dangling" /\ crash
          THEN Abort
          ELSE PlainCall("execute",
                         IF r.err = "none" /\ ccode # "CURLE_OK"
                         THEN Throw(r.c, "connection_error") ELSE r)

(* --------- pairs_to_fields_str / fields_str_to_map, lines 853-894 -------- *)
\* util is the last use of the two functions: the list given, the string made
\* or given, and the list parsed

NoUtil == [op |-> "none", fields |-> <<>>, fstr |-> "", parsed |-> <<>>]

UtilFrame == UNCHANGED <<contexts, contexts_mtx, certificate_bundle_path, fe, pc,
                         arg, exc, wire, aborted, plain>>

ToFieldsStr(fields) ==
    /\ util.op = "none"
    /\ util' = [op |-> "to_str", fields |-> fields,
                fstr |-> pairs_to_fields_str(fields), parsed |-> <<>>]
    /\ UtilFrame

ParseBack ==
    /\ util.op = "to_str"
    /\ util' = [util EXCEPT !.op = "round_trip", !.parsed = fields_str_to_map(util.fstr)]
    /\ UtilFrame

ParseStr(fstr) ==
    /\ util.op = "none"
    /\ util' = [op |-> "parse", fields |-> <<>>, fstr |-> fstr,
                parsed |-> fields_str_to_map(fstr)]
    /\ UtilFrame

(* ------------------------------ system --------------------------------- *)

Init ==
    /\ contexts = EmptyMap
    /\ contexts_mtx = 0
    /\ certificate_bundle_path = ""
    /\ fe = [f \in FEs |-> NoFE]
    /\ pc = [t \in Threads |-> "idle"]
    /\ arg = [t \in Threads |-> NoArg]
    /\ exc = [t \in Threads |-> "none"]
    /\ wire = [t \in Threads |-> NoWire]
    /\ aborted = FALSE
    /\ plain = NoPlain
    /\ util = NoUtil

Next ==
    \/ \E t \in Threads, f \in FEs, url \in UrlInputs, meth \in MethInputs,
          id \in Ids : CtorBegin(t, f, url, meth, id)
    \/ \E t \in Threads, bad \in BadInputs : CtorNew(t, bad)
    \/ \E t \in Threads, bad \in BadInputs, lhsFirst \in BOOLEAN :
          CtorNewThrows(t, bad, lhsFirst)
    \/ \E t \in Threads : CtorFound(t)
    \/ \E t \in Threads, bad \in BadInputs : CtorConfig(t, bad)
    \/ \E t \in Threads : CtorOpen(t)
    \/ \E t \in Threads, f \in FEs, g \in FEs : CopyBegin(t, f, g)
    \/ \E t \in Threads : CopyIncr(t)
    \/ \E t \in Threads, f \in FEs, g \in FEs : AssignBegin(t, f, g)
    \/ \E t \in Threads : AssignRefs(t)
    \/ \E t \in Threads : AssignIncr(t)
    \/ \E t \in Threads : AssignAdopt(t)
    \/ \E t \in Threads, f \in FEs : CloseBegin(t, f)
    \/ \E t \in Threads : CloseDecr(t)
    \/ \E t \in Threads : CloseMark(t)
    \/ \E t \in Threads, f \in FEs : Destroy(t, f)
    \/ \E t \in Threads, id \in Ids : NConnectionsBegin(t, id)
    \/ \E t \in Threads : NConnections(t)
    \/ \E t \in Threads : Catch(t)
    \/ \E t \in Threads : Return(t)

Spec == Init /\ [][Next]_vars

\* the life cycle together with the pending parameters and execute
NextExec ==
    \/ \E t \in Threads, f \in FEs, url \in ExecUrlInputs, meth \in ExecMethInputs,
          id \in Ids : CtorBegin(t, f, url, meth, id)
    \/ \E t \in Threads, bad \in ExecBadInputs : CtorNew(t, bad)
    \/ \E t \in Threads, bad \in ExecBadInputs, lhsFirst \in BOOLEAN :
          CtorNewThrows(t, bad, lhsFirst)
    \/ \E t \in Threads : CtorFound(t)
    \/ \E t \in Threads, bad \in ExecBadInputs : CtorConfig(t, bad)
    \/ \E t \in Threads : CtorOpen(t)
    \/ \E t \in Threads, f \in FEs : CloseBegin(t, f)
    \/ \E t \in Threads : CloseDecr(t)
    \/ \E t \in Threads : CloseMark(t)
    \/ \E t \in Threads, f \in FEs, url \in ExecUrlInputs : SetUrl(t, f, url)
    \/ \E t \in Threads, f \in FEs, h \in HeaderInputs : AddHeaders(t, f, h)
    \/ \E t \in Threads, f \in FEs : ExecBegin(t, f)
    \/ \E t \in Threads : ExecResolve(t)
    \/ \E t \in Threads, bad \in ExecBadInputs : ExecConfigUrl(t, bad)
    \/ \E t \in Threads, bad \in ExecBadInputs, crash \in BOOLEAN :
          ExecConfigBody(t, bad, crash)
    \/ \E t \in Threads, ccode \in {"CURLE_OK", "CURLE_COULDNT_CONNECT"} :
          ExecReturn(t, ccode)
    \/ \E t \in Threads : Catch(t)
    \/ \E t \in Threads : Return(t)

SpecExec == Init /\ [][NextExec]_vars

\* one front-end (the first) on one context, with its method, fields and timeout
NextBody ==
    \/ \E t \in Threads, meth \in BodyMethInputs :
          CtorBegin(t, 1, "http://a", meth, 1)
    \/ \E t \in Threads : CtorNew(t, {})
    \/ \E t \in Threads : CtorOpen(t)
    \/ \E t \in Threads : CloseBegin(t, 1)
    \/ \E t \in Threads : CloseDecr(t)
    \/ \E t \in Threads : CloseMark(t)
    \/ \E t \in Threads, meth \in BodyMethInputs : SetMethod(t, 1, meth)
    \/ \E t \in Threads, fl \in FieldInputs : SetFields(t, 1, fl)
    \/ \E t \in Threads, ms \in TimeoutInputs : SetTimeout(t, 1, ms)
    \/ \E t \in Threads : ExecBegin(t, 1)
    \/ \E t \in Threads : ExecResolve(t)
    \/ \E t \in Threads, bad \in BodyBadInputs : ExecConfigUrl(t, bad)
    \/ \E t \in Threads, bad \in BodyBadInputs, crash \in BOOLEAN :
          ExecConfigBody(t, bad, crash)
    \/ \E t \in Threads, ccode \in {"CURLE_OK", "CURLE_COULDNT_CONNECT"} :
          ExecReturn(t, ccode)
    \/ \E t \in Threads : Catch(t)
    \/ \E t \in Threads : Return(t)

SpecBody == Init /\ [][NextBody]_vars

\* a plain HTTPConnection and one shared front-end (the first), with their urls
NextPlain ==
    \/ \E url \in PlainUrlInputs, meth \in PlainMethInputs, bad \in PlainBadInputs :
          PlainConstruct(url, meth, bad)
    \/ \E url \in PlainUrlInputs, bad \in PlainBadInputs : PlainSetUrl(url, bad)
    \/ \E t \in Threads : CtorBegin(t, 1, "http://a", "http_get", 1)
    \/ \E t \in Threads : CtorNew(t, {})
    \/ \E t \in Threads : CtorOpen(t)
    \/ \E t \in Threads, url \in PlainUrlInputs : SetUrl(t, 1, url)
    \/ \E t \in Threads : Catch(t)
    \/ \E t \in Threads : Return(t)

SpecPlain == Init /\ [][NextPlain]_vars

\* the strings over FieldChars of at most n characters
RECURSIVE Strings(_)
\* two front-ends on one context; only the first is ever given fields
NextShare ==
    \/ \E t \in Threads, f \in FEs, meth \in BodyMethInputs :
          CtorBegin(t, f, "http://a", meth, 1)
    \/ \E t \in Threads : CtorNew(t, {})
    \/ \E t \in Threads : CtorFound(t)
    \/ \E t \in Threads : CtorConfig(t, {})
    \/ \E t \in Threads : CtorOpen(t)
    \/ \E t \in Threads, fl \in FieldInputs : SetFields(t, 1, fl)
    \/ \E t \in Threads, f \in FEs : ExecBegin(t, f)
    \/ \E t \in Threads : ExecResolve(t)
    \/ \E t \in Threads : ExecConfigUrl(t, {})
    \/ \E t \in Threads : ExecConfigBody(t, {}, FALSE)
    \/ \E t \in Threads, ccode \in {"CURLE_OK", "CURLE_COULDNT_CONNECT"} :
          ExecReturn(t, ccode)
    \/ \E t \in Threads : Catch(t)

SpecShare == Init /\ [][NextShare]_vars

\* one transport handle through its whole life: configured, used, closed
NextClosed ==
    \/ \E url \in PlainUrlInputs, meth \in PlainMethInputs, bad \in ClosedBadInputs :
          PlainConstruct(url, meth, bad)
    \/ \E url \in PlainUrlInputs, bad \in ClosedBadInputs : PlainSetUrl(url, bad)
    \/ PlainClose
    \/ \E bad \in ClosedBadInputs : PlainSetOption(bad)
    \/ \E ms \in TimeoutInputs, bad \in ClosedBadInputs : PlainSetTimeout(ms, bad)
    \/ \E h \in HeaderInputs, bad \in ClosedBadInputs : PlainAddHeaders(h, bad)
    \/ PlainResetHeaders
    \/ \E fl \in FieldInputs, bad \in ClosedBadInputs : PlainSetFields(fl, bad)
    \/ \E bad \in ClosedBadInputs, ccode \in {"CURLE_OK", "CURLE_COULDNT_CONNECT"},
          crash \in BOOLEAN : PlainExecute(bad, ccode, crash)

SpecClosed == Init /\ [][NextClosed]_vars

Strings(n) ==
    IF n = 0 THEN {""}
    ELSE Strings(n - 1) \cup {s \o c : s \in Strings(n - 1), c \in FieldChars}

\* the lists of at most n pairs of FieldTokens
RECURSIVE FieldLists(_)
FieldLists(n) ==
    IF n = 0 THEN {<<>>}
    ELSE FieldLists(n - 1)
            \cup {Append(l, <<k, v>>) : l \in FieldLists(n - 1),
                                        k \in FieldTokens, v \in FieldTokens}

NextFields ==
    \/ \E fields \in FieldLists(MaxPairs) : ToFieldsStr(fields)
    \/ ParseBack
    \/ \E fstr \in Strings(MaxStr) : ParseStr(fstr)

SpecFields == Init /\ [][NextFields]_vars

(* ------------------------------ claims --------------------------------- *)

\* nconnections on a given registry
Nref(ctxs, id) == IF id \in DOMAIN ctxs THEN ctxs[id].nref ELSE 0

OpenCount(id) ==
    Cardinality({f \in FEs : fe[f].live /\ fe[f]._is_open /\ fe[f]._id = id})

\* a thread is between the first and the last step of an operation that moves
\* references
RefOpPcs == {"ctor_lock", "ctor_wait", "ctor_open", "copy_lock", "assign_lock",
             "assign_incr", "assign_adopt", "close_lock", "close_mark"}

NoRefOp == \A t \in Threads : pc[t] \notin RefOpPcs

\* the front-end is still inside its constructor
Constructing(f) == \E t \in Threads : pc[t] # "idle" /\ arg[t].op = "ctor" /\ arg[t].f = f

\* the url has one of the two accepted prefixes
ValidUrl(url) == StartsWith(url, "http://") \/ StartsWith(url, "https://")

\* C1: whenever no constructor, copy, assignment, close or destructor is under
\* way, nconnections(id) is the number of open front-ends bound to id, the
\* registry has an entry for id exactly when that number is positive, and no
\* stored entry has nref = 0.
C1_RefcountInvariant ==
    NoRefOp =>
        \A id \in Ids :
            /\ nconnections(id) = OpenCount(id)
            /\ (id \in DOMAIN contexts) <=> (OpenCount(id) > 0)
            /\ (id \in DOMAIN contexts) => contexts[id].nref # 0

\* the same for the entries that own a connection: the counting itself is right
RefcountOfConnections ==
    NoRefOp =>
        \A id \in Ids :
            /\ (id \in DOMAIN contexts /\ contexts[id].conn # <<>>)
                  => /\ contexts[id].nref = OpenCount(id)
                     /\ contexts[id].nref > 0
            /\ OpenCount(id) > 0 => (id \in DOMAIN contexts /\ contexts[id].conn # <<>>)

\* C2: the request of every network exchange in progress is the executing
\* front-end's own: its pending url, exactly its pending headers, its method and
\* its timeout, and the shared connection still is as that execute configured it.
C2_NoMixedRequests ==
    \A t \in Threads :
        pc[t] = "exec_io" =>
            LET this == fe[arg[t].f]
                w == wire[t][1]
            IN /\ w.url = this._url
               /\ w.headers = [i \in 1..Len(this._headers) |->
                                 this._headers[i][1] \o ": " \o this._headers[i][2]]
               /\ w.meth = this._meth
               /\ w.timeout = (IF this._timeout > 0 THEN this._timeout ELSE 0)
               /\ this._id \in DOMAIN contexts
               /\ contexts[this._id].conn # <<>>
               /\ Request(contexts[this._id].conn[1], arg[t].f, w.pushed) = w

\* the part of C2 that the per-entry mutex gives: at most one thread is inside
\* the locked region of execute on an id, and it holds that id's mutex
ExecuteOneAtATime ==
    \A t \in Threads :
        pc[t] \in {"exec_cfg", "exec_io"} =>
            /\ fe[arg[t].f]._id \in DOMAIN contexts
            /\ contexts[fe[arg[t].f]._id].mtx = t

\* C3: no thread holds contexts_mtx while it waits for a per-entry mutex that an
\* execute in its network exchange holds.
C3_GlobalLockNotHeldAcrossIO ==
    ~ \E t \in Threads, u \in Threads :
        /\ contexts_mtx = t
        /\ pc[t] = "ctor_wait"
        /\ pc[u] = "exec_io"
        /\ fe[arg[t].f]._id \in DOMAIN contexts
        /\ contexts[fe[arg[t].f]._id].mtx = u

\* C4: from the lookup of _get_context until execute returns, the entry of the
\* executing front-end is in the registry with its connection, its mutex and a
\* positive nref (so the assertion of _get_context holds), whatever the other
\* threads construct or close.
C4_EntryAliveWhileBound ==
    \A t \in Threads :
        pc[t] \in {"exec_resolve", "exec_wait", "exec_cfg", "exec_io"} =>
            LET id == fe[arg[t].f]._id
            IN /\ id \in DOMAIN contexts
               /\ contexts[id].conn # <<>>
               /\ contexts[id].mtx # -1
               /\ contexts[id].nref > 0

\* an execute is in its network exchange while another thread has just closed
\* another front-end of the same id
C4_Witness ==
    \E t \in Threads, u \in Threads :
        /\ pc[t] = "exec_io"
        /\ pc[u] = "ret" /\ arg[u].op = "close"
        /\ fe[arg[u].f]._id = fe[arg[t].f]._id

\* C5: a per-entry mutex is held only by a thread inside the locked region of
\* execute: once execute has returned or thrown, at whatever step, the mutex of
\* its entry is free of that thread.
C5_EntryLockReleased ==
    \A id \in DOMAIN contexts :
        \A t \in Threads :
            contexts[id].mtx = t =>
                /\ pc[t] \in {"exec_cfg", "exec_io"}
                /\ fe[arg[t].f]._id = id

\* an execute has failed in its network exchange and its entry's mutex is free
C5_Witness ==
    \E t \in Threads :
        /\ pc[t] = "threw" /\ arg[t].op = "execute"
        /\ exc[t] \in {"connection_error", "option_rejected"}
        /\ fe[arg[t].f]._id \in DOMAIN contexts
        /\ contexts[fe[arg[t].f]._id].mtx = 0

\* a thread waits for a mutex that another thread holds
WaitsForLock(t) ==
    \/ /\ pc[t] \in {"ctor_lock", "copy_lock", "assign_lock", "close_lock",
                     "ncon_lock", "exec_resolve"}
       /\ contexts_mtx # 0
    \/ /\ pc[t] \in {"ctor_wait", "exec_wait"}
       /\ fe[arg[t].f]._id \in DOMAIN contexts
       /\ contexts[fe[arg[t].f]._id].mtx # 0

\* C6: while the process runs, the threads that are inside an operation are
\* never all waiting for a lock.
C6_NoDeadlock ==
    ~aborted =>
        \/ \A t \in Threads : pc[t] = "idle"
        \/ \E t \in Threads : pc[t] # "idle" /\ ~WaitsForLock(t)

\* a constructor holds contexts_mtx and waits for the mutex of an entry whose
\* execute is in its network exchange, while no deadlock exists
C6_Witness ==
    \E t \in Threads, u \in Threads :
        /\ pc[t] = "ctor_wait" /\ contexts_mtx = t /\ pc[u] = "exec_io"
        /\ contexts[fe[arg[t].f]._id].mtx = u

\* C7: an execute with a method other than GET that pushes no body (its pending
\* fields are empty) sends an empty body.
C7_OneShotBody ==
    \A t \in Threads :
        (pc[t] = "exec_io" /\ wire[t][1].meth # "http_get" /\ wire[t][1].pushed = "")
            => wire[t][1].body = ""

\* C8 as stated: no step turns a closed front-end into an open one.
C8_ClosedIsAbsorbing ==
    [][\A f \in FEs :
          (fe[f].live /\ ~fe[f]._is_open /\ ~Constructing(f))
              => ~(fe'[f].live /\ fe'[f]._is_open)]_vars

\* C8 amended: the one step that turns a closed front-end into an open one is
\* the adoption of an open front-end's fields by operator=; after it the
\* front-end equals that front-end.
C8_ClosedReopensOnlyByAssign ==
    [][\A f \in FEs :
          (fe[f].live /\ ~fe[f]._is_open /\ ~Constructing(f)
                /\ fe'[f].live /\ fe'[f]._is_open)
              => \E t \in Threads :
                    /\ pc[t] = "assign_adopt" /\ arg[t].f = f
                    /\ fe[arg[t].g]._is_open
                    /\ fe'[f] = fe[arg[t].g]
                    /\ Nref(contexts, fe[arg[t].g]._id) >= 1]_vars

\* operator= is about to let a closed front-end adopt an open one
C8_Witness ==
    \E t \in Threads :
        /\ pc[t] = "assign_adopt"
        /\ ~fe[arg[t].f]._is_open
        /\ fe[arg[t].g]._is_open

\* C9: close() on a closed front-end returns at once and changes nothing; on an
\* open one it takes one reference from the front-end's id (erasing the entry
\* at zero, leaving the other ids alone) and then clears _is_open, nothing else.
C9_CloseIdempotent ==
    [][\A t \in Threads :
          LET f == arg'[t].f
          IN /\ (pc[t] = "idle" /\ arg'[t].op = "close" /\ ~fe[f]._is_open)
                  => (pc'[t] = "noop" /\ fe' = fe /\ contexts' = contexts)
             /\ (pc[t] = "idle" /\ arg'[t].op = "close" /\ fe[f]._is_open)
                  => (pc'[t] = "close_lock" /\ fe' = fe /\ contexts' = contexts)
             /\ (pc[t] = "close_lock" /\ arg[t].op = "close" /\ pc'[t] = "close_mark")
                  => /\ fe' = fe
                     /\ Nref(contexts', fe[f]._id) = Nref(contexts, fe[f]._id) - 1
                     /\ (fe[f]._id \in DOMAIN contexts')
                           <=> (Nref(contexts, fe[f]._id) > 1)
                     /\ \A id \in Ids \ {fe[f]._id} :
                           /\ Nref(contexts', id) = Nref(contexts, id)
                           /\ (id \in DOMAIN contexts') <=> (id \in DOMAIN contexts)
             /\ (pc[t] = "close_mark" /\ arg[t].op = "close" /\ pc'[t] # "close_mark")
                  => /\ contexts' = contexts
                     /\ fe' = [fe EXCEPT ![f]._is_open = FALSE]
             /\ (pc[t] = "noop" /\ arg[t].op = "close" /\ pc'[t] # "noop")
                  => (fe' = fe /\ contexts' = contexts)]_vars

\* a close() of a closed front-end has returned
C9_Witness ==
    \E t \in Threads :
        /\ pc[t] = "noop" /\ arg[t].op = "close"
        /\ fe[arg[t].f].live /\ ~fe[arg[t].f]._is_open

\* C10 as stated: a constructor that reaches its last step was given a url
\* with the http:// or https:// prefix.
C10_ConstructionValidatesUrl ==
    \A t \in Threads : pc[t] = "ctor_open" => ValidUrl(arg[t].url)

\* C10 amended: a constructor given a non-empty url without the prefix never
\* opens a front-end; it throws, the invalid-url error unless the engine
\* rejected an option before the url was looked at, and no front-end is left.
C10_NonEmptyUrlValidated ==
    \A t \in Threads :
        (arg[t].op = "ctor" /\ arg[t].url # "" /\ ~ValidUrl(arg[t].url)) =>
            /\ pc[t] # "ctor_open"
            /\ ~fe[arg[t].f]._is_open
            /\ pc[t] = "threw" =>
                  /\ exc[t] \in {"invalid_protocol", "option_rejected"}
                  /\ ~fe[arg[t].f].live

\* a constructor on an id that other front-ends hold has thrown the invalid-url
\* error
C10_Witness ==
    \E t \in Threads :
        /\ pc[t] = "threw" /\ arg[t].op = "ctor" /\ arg[t].url = "ftp://a"
        /\ exc[t] = "invalid_protocol"
        /\ \E id \in DOMAIN contexts : contexts[id].nref > 0

\* C11: a constructor creates an entry, with a new connection and nref = 1, only
\* for an id that has no entry at that moment; for an id that has one it adds one
\* reference to the entry that is there; and once no reference operation is
\* under way, the entry of every id with open front-ends carries a connection
\* and nref is their number.
C11_AcquireAtomic ==
    [][/\ \A t \in Threads :
             LET id == fe[arg[t].f]._id
             IN /\ (pc[t] = "ctor_lock" /\ pc'[t] = "ctor_open")
                     => /\ id \notin DOMAIN contexts
                        /\ id \in DOMAIN contexts'
                        /\ contexts'[id].conn # <<>>
                        /\ contexts'[id].nref = 1
                /\ (pc[t] = "ctor_wait" /\ pc'[t] = "ctor_open")
                     => /\ id \in DOMAIN contexts /\ id \in DOMAIN contexts'
                        /\ contexts[id].conn # <<>>
                        /\ contexts'[id].nref = contexts[id].nref + 1
       /\ (\A t \in Threads : pc'[t] \notin RefOpPcs)
             => \A id \in Ids :
                   LET n == Cardinality({f \in FEs : fe'[f].live /\ fe'[f]._is_open
                                                        /\ fe'[f]._id = id})
                   IN n > 0 => /\ id \in DOMAIN contexts'
                               /\ contexts'[id].conn # <<>>
                               /\ contexts'[id].nref = n]_vars

\* two constructors on one id, which had no entry, are both at their last step
C11_Witness ==
    \E t \in Threads, u \in Threads :
        /\ t # u /\ pc[t] = "ctor_open" /\ pc[u] = "ctor_open"
        /\ fe[arg[t].f]._id = fe[arg[u].f]._id
        /\ Nref(contexts, fe[arg[t].f]._id) = 2

\* C12: when an open front-end on id A is assigned from an open front-end on
\* id B # A, the decrement of A (erasing at zero) and the increment of B are made
\* with contexts_mtx held from the one to the other, before the fields are
\* adopted; between them no thread reads nconnections and no other thread
\* changes the registry; B's entry is there during the whole assignment.
C12_ReassignAtomic ==
    [][\A t \in Threads :
          LET this == fe[arg[t].f]
              connection == fe[arg[t].g]
              A == this._id
              B == connection._id
          IN (arg[t].op = "assign" /\ pc[t] # "ret" /\ this._is_open
                    /\ connection._is_open /\ A # B)
               => /\ (pc[t] = "assign_lock" /\ pc'[t] # "assign_lock")
                       => /\ pc'[t] = "assign_incr" /\ contexts_mtx' = t
                          /\ Nref(contexts', A) = Nref(contexts, A) - 1
                          /\ (A \in DOMAIN contexts') <=> (Nref(contexts, A) > 1)
                          /\ Nref(contexts', B) = Nref(contexts, B)
                          /\ fe' = fe
                  /\ pc[t] = "assign_incr"
                       => /\ contexts_mtx = t
                          /\ \A u \in Threads : ~(pc[u] = "ncon_lock" /\ pc'[u] = "ret")
                          /\ pc'[t] = pc[t] => contexts' = contexts
                          /\ pc'[t] # pc[t]
                               => /\ pc'[t] = "assign_adopt" /\ contexts_mtx' = 0
                                  /\ Nref(contexts', B) = Nref(contexts, B) + 1
                                  /\ Nref(contexts', A) = Nref(contexts, A)
                                  /\ fe' = fe
                  /\ pc[t] \in {"assign_lock", "assign_incr", "assign_adopt"}
                       => /\ B \in DOMAIN contexts /\ B \in DOMAIN contexts'
                          /\ contexts[B].nref >= 1 /\ contexts'[B].nref >= 1]_vars

\* an assignment is between its decrement and its increment while another thread
\* wants to read nconnections of the id it leaves
C12_Witness ==
    \E t \in Threads, u \in Threads :
        /\ pc[t] = "assign_incr" /\ pc[u] = "ncon_lock"
        /\ arg[u].id = fe[arg[t].f]._id

\* C13: decr_ref on an id without an entry, or on an entry whose nref is 0, ends
\* in the failed assertion and hands back no registry; and the decr_ref that
\* close(), the destructor and operator= are about to make never fails one.
C13_ReleaseWithoutReference ==
    /\ \A id \in Ids \ DOMAIN contexts : decr_ref(contexts, id) = AssertFailed
    /\ \A id \in DOMAIN contexts :
          decr_ref([contexts EXCEPT ![id].nref = 0], id) = AssertFailed
    /\ \A t \in Threads :
          /\ pc[t] = "close_lock" => decr_ref(contexts, fe[arg[t].f]._id) # AssertFailed
          /\ (pc[t] = "assign_lock" /\ fe[arg[t].f]._is_open
                 /\ (~fe[arg[t].g]._is_open \/ fe[arg[t].g]._id # fe[arg[t].f]._id))
               => decr_ref(contexts, fe[arg[t].f]._id) # AssertFailed

\* a destructor has released the last reference of its id while another id has
\* no entry
C13_Witness ==
    \E t \in Threads :
        /\ pc[t] = "close_mark" /\ arg[t].op = "dtor"
        /\ fe[arg[t].f]._id \notin DOMAIN contexts
        /\ \E id \in Ids : id # fe[arg[t].f]._id /\ id \notin DOMAIN contexts

\* C14: execute() on a closed front-end throws the closed-connection error at
\* its first step: it takes no lock, sends nothing, and the registry, the shared
\* connections and the front-ends stay as they are, also when the caller takes
\* the exception; only an open front-end goes on to resolve its entry.
C14_ExecuteOnClosed ==
    [][\A t \in Threads :
          /\ (pc[t] = "idle" /\ pc'[t] # "idle" /\ arg'[t].op = "execute")
               => IF ~fe[arg'[t].f]._is_open
                  THEN /\ pc'[t] = "threw" /\ exc'[t] = "connection_closed"
                       /\ contexts' = contexts /\ contexts_mtx' = contexts_mtx
                       /\ wire' = wire /\ fe' = fe
                  ELSE pc'[t] = "exec_resolve"
          /\ (pc[t] = "threw" /\ arg[t].op = "execute" /\ exc[t] = "connection_closed"
                 /\ pc'[t] # pc[t])
               => /\ contexts' = contexts /\ contexts_mtx' = contexts_mtx
                  /\ wire' = wire /\ fe' = fe
          /\ pc[t] \in {"exec_resolve", "exec_wait", "exec_cfg", "exec_io"}
               => fe[arg[t].f]._is_open]_vars

\* execute() on a closed front-end has thrown while the registry has entries
C14_Witness ==
    \E t \in Threads :
        /\ pc[t] = "threw" /\ arg[t].op = "execute" /\ exc[t] = "connection_closed"
        /\ fe[arg[t].f].live /\ ~fe[arg[t].f]._is_open
        /\ DOMAIN contexts # {}

\* C15: the step at which an execute() fails, in its configuration or in its
\* network exchange, leaves the front-end open on the same id, the entry in the
\* registry and its nref as it was; and until the caller takes the exception the
\* front-end is open and its entry has its connection, its mutex and nref >= 1,
\* which is what the next execute() asks for.
C15_FailedExecuteKeepsOpen ==
    [][\A t \in Threads :
          LET f == arg[t].f
              id == fe[f]._id
          IN /\ (arg[t].op = "execute" /\ pc[t] \in {"exec_wait", "exec_cfg", "exec_io"}
                    /\ pc'[t] = "threw")
                  => /\ fe'[f].live /\ fe'[f]._is_open /\ fe'[f]._id = id
                     /\ id \in DOMAIN contexts /\ id \in DOMAIN contexts'
                     /\ contexts'[id].nref = contexts[id].nref
             /\ (arg[t].op = "execute" /\ pc[t] = "threw" /\ exc[t] # "connection_closed")
                  => /\ fe[f].live /\ fe[f]._is_open
                     /\ id \in DOMAIN contexts
                     /\ contexts[id].conn # <<>> /\ contexts[id].mtx # -1
                     /\ contexts[id].nref >= 1
                     /\ contexts[id].mtx # t]_vars

\* an execute() has failed in its network exchange and its front-end is open
C15_Witness ==
    \E t \in Threads :
        /\ pc[t] = "threw" /\ arg[t].op = "execute" /\ exc[t] = "connection_error"
        /\ fe[arg[t].f]._is_open

\* the verification of SET_ssl_verify has been set up completely on c
TlsSetUp(c) == "CURLOPT_SSL_VERIFYHOST" \in DOMAIN c._options

\* nverify after one more SET_ssl_verify
OneMoreVerify(c) == IF c.nverify < MaxVerify THEN c.nverify + 1 ELSE c.nverify

C17_BadUrlChangesNothing ==
    [][/\ (plain' # plain /\ plain'.op = "set_url" /\ ~ValidUrl(plain'.url))
             => /\ plain'.err = "invalid_protocol"
                /\ plain'.conn = plain.conn
       /\ \A t \in Threads :
             (pc[t] = "idle" /\ pc'[t] # "idle" /\ arg'[t].op = "set_url")
                => /\ contexts' = contexts /\ contexts_mtx' = contexts_mtx
                   /\ wire' = wire /\ plain' = plain
                   /\ IF ~ValidUrl(arg'[t].url)
                      THEN /\ pc'[t] = "threw" /\ exc'[t] = "invalid_protocol"
                           /\ fe' = fe
                      ELSE /\ pc'[t] = "ret"
                           /\ fe' = [fe EXCEPT ![arg'[t].f]._url = arg'[t].url]]_vars

\* set_url("ftp://a") has thrown on the plain connection and on an open shared
\* front-end
C17_Witness ==
    /\ plain.conn # <<>> /\ plain.op = "set_url" /\ plain.url = "ftp://a"
    /\ plain.err = "invalid_protocol"
    /\ \E t \in Threads :
          /\ pc[t] = "threw" /\ arg[t].op = "set_url" /\ arg[t].url = "ftp://a"
          /\ exc[t] = "invalid_protocol"
          /\ fe[arg[t].f]._is_open /\ fe[arg[t].f]._url = "http://a"

HasChar(s, ch) == FindFrom(s, ch, 1) <= Len(s)

\* no key and no value holds '&', no key holds '='
NoSeparators(fields) ==
    \A i \in 1..Len(fields) :
        /\ ~HasChar(fields[i][1], "&") /\ ~HasChar(fields[i][2], "&")
        /\ ~HasChar(fields[i][1], "=")

NoNul(fields) ==
    \A i \in 1..Len(fields) :
        ~HasChar(fields[i][1], NUL) /\ ~HasChar(fields[i][2], NUL)

\* what fields_str_to_map has to give for the string fstr: for a string without
\* '&' the one pair cut at its first '=', or nothing when it has no '='; and for
\* a string with an '&' the pairs of what is before it followed by the pairs of
\* what is after it (so an empty segment and a segment without '=' add nothing)
ParsedAsSegments(fstr, parsed) ==
    IF ~HasChar(fstr, "&")
    THEN parsed = IF HasChar(fstr, "=")
                  THEN << <<SubSeq(fstr, 1, FindFrom(fstr, "=", 1) - 1),
                            SubSeq(fstr, FindFrom(fstr, "=", 1) + 1, Len(fstr))>> >>
                  ELSE <<>>
    ELSE \A i \in 1..Len(fstr) :
            SubSeq(fstr, i, i) = "&"
               => parsed = fields_str_to_map(SubSeq(fstr, 1, i - 1))
                              \o fields_str_to_map(SubSeq(fstr, i + 1, Len(fstr)))

\* C18 as stated: for every list whose keys and values hold no '&' and whose
\* keys hold no '=', parsing the string made of the list gives the list back;
\* and parsing skips the empty segments and drops the segments without '='.
C18_FieldsRoundTrip ==
    /\ (util.op = "round_trip" /\ NoSeparators(util.fields))
          => util.parsed = util.fields
    /\ util.op \in {"round_trip", "parse"} => ParsedAsSegments(util.fstr, util.parsed)

\* C18 amended: the same for the lists whose keys and values hold no '\0'
\* either; the string made of a list ends before the first '\0'.
C18_FieldsRoundTripNoNul ==
    /\ (util.op = "round_trip" /\ NoSeparators(util.fields) /\ NoNul(util.fields))
          => util.parsed = util.fields
    /\ util.op = "to_str" => ~HasChar(util.fstr, NUL)
    /\ util.op \in {"round_trip", "parse"} => ParsedAsSegments(util.fstr, util.parsed)

\* a list of two pairs, one with an empty key and one with '=' in its value,
\* has come back from its string
C18_Witness ==
    /\ util.op = "round_trip"
    /\ util.fields = << <<"", "a">>, <<"a", "=">> >>
    /\ util.fstr = "=a&a=="
    /\ util.parsed = util.fields

\* C19: a call on the shared connection of an entry is made only by a thread
\* that has the entry's mutex: the constructor on an existing id and execute
\* start their calls by taking the free mutex, execute makes its later calls and
\* its network exchange holding it, and no step of any other kind changes the
\* connection of an entry.
C19_ConnectionMutatedUnderLock ==
    [][/\ \A t \in Threads :
             LET id == fe[arg[t].f]._id
             IN /\ (pc[t] \in {"ctor_wait", "exec_wait"} /\ pc'[t] # pc[t])
                     => (id \in DOMAIN contexts /\ contexts[id].mtx = 0)
                /\ pc[t] \in {"exec_cfg", "exec_io"}
                     => (id \in DOMAIN contexts /\ contexts[id].mtx = t)
       /\ \A id \in Ids :
             (id \in DOMAIN contexts /\ id \in DOMAIN contexts'
                 /\ contexts[id].conn # <<>> /\ contexts'[id].conn # contexts[id].conn)
                => \E t \in Threads :
                      /\ pc[t] \in {"ctor_wait", "exec_wait", "exec_cfg"}
                      /\ pc'[t] # pc[t]
                      /\ fe[arg[t].f]._id = id
                      /\ contexts[id].mtx \in {0, t}]_vars

\* an execute holds the mutex of its entry and has configured the connection,
\* while a constructor on the same id waits for that mutex
C19_Witness ==
    \E t \in Threads, u \in Threads :
        /\ pc[t] = "exec_cfg" /\ pc[u] = "ctor_wait"
        /\ fe[arg[t].f]._id = fe[arg[u].f]._id
        /\ contexts[fe[arg[t].f]._id].mtx = t

\* the steps of an execute leave the pending url, method, headers and timeout
\* of its front-end as they are, and its fields as they are or empty
ExecuteKeepsPending(t) ==
    LET f == arg[t].f
    IN (arg[t].op = "execute" /\ pc[t] # "idle")
          => /\ fe'[f]._url = fe[f]._url /\ fe'[f]._meth = fe[f]._meth
             /\ fe'[f]._headers = fe[f]._headers /\ fe'[f]._timeout = fe[f]._timeout
             /\ fe'[f]._is_open = fe[f]._is_open /\ fe'[f]._id = fe[f]._id
             /\ fe'[f]._fields \in {fe[f]._fields, <<>>}

\* C20 as stated: an execute keeps the pending url, method, headers and timeout,
\* its front-end has no pending fields when it has succeeded, and the step that
\* empties the fields has pushed them as the body: the method is not GET and
\* CURLOPT_COPYPOSTFIELDS of the shared connection is the string of those fields.
C20_FieldsClearedWhenConsumed ==
    [][\A t \in Threads :
          LET f == arg[t].f
              id == fe[f]._id
          IN /\ ExecuteKeepsPending(t)
             /\ (arg[t].op = "execute" /\ pc[t] = "exec_io" /\ pc'[t] = "ret")
                   => fe'[f]._fields = <<>>
             /\ (arg[t].op = "execute" /\ pc[t] # "idle" /\ fe'[f]._fields # fe[f]._fields)
                   => /\ fe[f]._meth # "http_get"
                      /\ id \in DOMAIN contexts'
                      /\ "CURLOPT_COPYPOSTFIELDS" \in DOMAIN contexts'[id].conn[1]._options
                      /\ contexts'[id].conn[1]._options["CURLOPT_COPYPOSTFIELDS"]
                            = pairs_to_fields_str(fe[f]._fields)]_vars

\* C20 amended: an execute keeps the pending url, method, headers and timeout;
\* the fields are emptied at one step only, the one that configures method and
\* body, and by every execute that gets to its network exchange, pushed or not:
\* they are pushed exactly when the method is not GET and they are not empty;
\* from the network exchange on, also when it fails, the fields are empty.
C20_FieldsClearedByEveryExecute ==
    [][\A t \in Threads :
          LET f == arg[t].f
          IN /\ ExecuteKeepsPending(t)
             /\ (arg[t].op = "execute" /\ pc[t] # "idle" /\ fe'[f]._fields # fe[f]._fields)
                   => pc[t] = "exec_cfg"
             /\ (arg[t].op = "execute" /\ pc[t] = "exec_cfg" /\ pc'[t] = "exec_io")
                   => /\ fe'[f]._fields = <<>>
                      /\ wire'[t][1].pushed =
                            IF fe[f]._meth # "http_get" /\ fe[f]._fields # <<>>
                            THEN pairs_to_fields_str(fe[f]._fields) ELSE ""
             /\ (arg[t].op = "execute" /\ pc[t] = "exec_io")
                   => (fe[f]._fields = <<>> /\ fe'[f]._fields = <<>>)]_vars

\* an execute with the method GET is about to empty pending fields that it does
\* not push
C20_Witness ==
    \E t \in Threads :
        /\ pc[t] = "exec_cfg" /\ arg[t].op = "execute"
        /\ fe[arg[t].f]._meth = "http_get" /\ fe[arg[t].f]._fields # <<>>

(* ------------------------------- C21 ------------------------------------ *)

HandleClosed(p) == p.conn # <<>> /\ ~p.conn[1]._handle.open

\* the state of the transport handle: the easy handle, its header list, the
\* options it recorded
HandleState(p) == <<p.conn[1]._handle, p.conn[1]._header, p.conn[1]._options>>

\* a call on the handle that was closed before the call
UseOfClosed == plain' # plain /\ HandleClosed(plain)

\* C21 as stated: after close() the handle is closed in every later state, and
\* each of set_option, set_url, set_timeout, add_headers, reset_headers,
\* set_fields and execute called on it fails with an error and changes nothing
\* of the handle.
C21_ClosedRejectsAllUse ==
    [][UseOfClosed =>
         /\ HandleClosed(plain')
         /\ plain'.op \in {"set_option", "set_url", "set_timeout", "add_headers",
                           "reset_headers", "set_fields", "execute"}
              => plain'.err # "none" /\ HandleState(plain') = HandleState(plain)]_vars

\* C21 as the code has it: after close() the handle is closed in every later
\* state; set_option, set_url, set_timeout, add_headers, set_fields and execute
\* called on it fail with an error and change nothing of the handle, while
\* reset_headers (which has no test of the handle) returns without an error and
\* changes nothing.
C21_ClosedRejectsUseButReset ==
    [][UseOfClosed =>
         /\ HandleClosed(plain')
         /\ HandleState(plain') = HandleState(plain)
         /\ plain'.op \in {"set_option", "set_url", "set_timeout", "add_headers",
                           "set_fields", "execute"}
              => plain'.err # "none"
         /\ plain'.op = "reset_headers" => plain'.err = "none"]_vars

\* an execute() on a closed handle was refused
C21_Witness ==
    HandleClosed(plain) /\ plain.op = "execute" /\ plain.err = "handle_closed"

(* ------------------------------- C22 ------------------------------------ *)

\* the step in which the constructor run by t fails
CtorFails(t) == arg[t].op = "ctor" /\ pc[t] # "threw" /\ pc'[t] = "threw"

\* C22: a constructor that fails (on a new id or on an existing one) has
\* released contexts_mtx, has added no entry to the registry and has changed no
\* entry's refcount, and no constructor trips the assertion nref > 0.
C22_FailedConstructionLeavesRegistry ==
    [][/\ \A t \in Threads :
            CtorFails(t) =>
              /\ contexts_mtx' = 0
              /\ DOMAIN contexts' = DOMAIN contexts
              /\ \A id \in Ids : Nref(contexts', id) = Nref(contexts, id)
       /\ aborted' => aborted]_vars

(* ------------------------------- C23 ------------------------------------ *)

\* C23: the body an execute() sends depends only on the executing front-end's
\* own method and fields. In SpecShare the second front-end never has fields,
\* whatever the first one on the same id sets and sends, so every request of
\* the second front-end has an empty body.
C23_BodyIsolation ==
    \A t \in Threads :
        (pc[t] = "exec_io" /\ wire[t][1].by = 2) => wire[t][1].body = ""

(* ------------------------------- C24 ------------------------------------ *)

\* the positions whose next step takes contexts_mtx
GlobalLockPcs == {"ctor_lock", "copy_lock", "assign_lock", "close_lock", "ncon_lock",
                  "exec_resolve"}

HoldsEntryLock(t) == \E id \in DOMAIN contexts : contexts[id].mtx = t

\* C24: a thread that holds the mutex of an entry is inside execute, past
\* _get_context, and is not about to take contexts_mtx; an execute that waits
\* for or holds the mutex of its entry does not hold contexts_mtx; the only
\* thread that goes for an entry's mutex with contexts_mtx held is the
\* constructor on an existing id, which took contexts_mtx first.
C24_LockOrder ==
    \A t \in Threads :
        /\ HoldsEntryLock(t) => pc[t] \in {"exec_cfg", "exec_io"} /\ pc[t] \notin GlobalLockPcs
        /\ pc[t] \in {"exec_wait", "exec_cfg", "exec_io"} => contexts_mtx # t
        /\ pc[t] = "ctor_wait" => contexts_mtx = t
        /\ contexts_mtx = t => pc[t] = "ctor_wait"

\* an execute has left _get_context and waits, without contexts_mtx, for the
\* mutex of its entry, which another execute holds
C24_Witness ==
    \E t \in Threads, u \in Threads :
        /\ pc[t] = "exec_wait" /\ pc[u] \in {"exec_cfg", "exec_io"}
        /\ fe[arg[t].f]._id = fe[arg[u].f]._id
        /\ contexts[fe[arg[u].f]._id].mtx = u
        /\ contexts_mtx = 0

====
